---------------------------- MODULE Spec2Model ----------------------------
(***************************************************************************)
(* Model of the systematic-review backend (src/backend/app.py and          *)
(* src/backend/utils.py): the upload handler, the query handler, the       *)
(* artifact pair (index file, metadata file) they share on disk, and the   *)
(* context assembly and budget arithmetic of process_question.             *)
(*                                                                         *)
(* Strings are modelled as sequences of pieces.  A piece is an opaque run  *)
(* of characters that carries the number of tokens the tokenizer gives it  *)
(* and, for a chunk or a question, the position of its embedding on a      *)
(* one-dimensional axis.  count_tokens is the sum of the pieces' tokens.   *)
(* split_text_into_chunks is modelled apart, on texts that are sequences   *)
(* of characters (SpecChunk).                                              *)
(***************************************************************************)
EXTENDS Integers, Sequences, FiniteSets, TLC

VARIABLES disk, up, qs, ck

vars == <<disk, up, qs, ck>>

---------------------------------------------------------------------------
(* Bounds of the model *)

\* most characters of a text given to split_text_into_chunks (SpecChunk)
MaxText == 6

\* most files in one upload request (Spec)
MaxFiles == 2
\* most documents behind the artifact pair a query is run against (SpecAssemble)
MaxDocs == 3
\* the topics a document may be about
Topics == {0, 1}

\* the upload requests of the session
Uploads == {"u1", "u2"}

---------------------------------------------------------------------------
(* Program constants *)

TOP_N == 20
NORMAL_CAP == 3
FALLBACK_CAP == 2
NORMAL_SEP == 60
FALLBACK_SEP == 40
CONTEXT_CEILING == 10000
MODEL_CONTEXT_WINDOW == 16385
SAFETY_MARGIN == 500
OUTPUT_CAP == 2000
MIN_OUTPUT == 500

Min(a, b) == IF a < b THEN a ELSE b

---------------------------------------------------------------------------
(* Strings *)

NoPaper == ""

Piece(kind, paper, part, vec, tok) ==
    [kind |-> kind, paper |-> paper, part |-> part, vec |-> vec, tok |-> tok]

\* a literal of the source text, t tokens long
Lit(kind, t) == <<Piece(kind, NoPaper, 0, 0, t)>>

RECURSIVE SumTok(_, _)
SumTok(s, i) == IF i > Len(s) THEN 0 ELSE s[i].tok + SumTok(s, i + 1)

\* utils.count_tokens: len(encoding.encode(text))
count_tokens(text) == SumTok(text, 1)

RECURSIVE Concat(_, _)
Concat(ss, i) == IF i > Len(ss) THEN <<>> ELSE ss[i] \o Concat(ss, i + 1)

\* sep.join(parts)
RECURSIVE Join(_, _, _)
Join(sep, parts, i) ==
    IF i > Len(parts) THEN <<>>
    ELSE IF i = Len(parts) THEN parts[i]
    ELSE parts[i] \o sep \o Join(sep, parts, i + 1)

\* python's seq[:n]
Take(s, n) == SubSeq(s, 1, Min(n, Len(s)))

\* python's seq[idx] for a list: a negative idx counts from the end;
\* the caller guards idx < len(seq)
At(s, idx) == IF idx >= 0 THEN s[idx + 1] ELSE s[Len(s) + idx + 1]

---------------------------------------------------------------------------
(* Embeddings and the vector index *)

\* the embedding service's vector for one text: texts of one piece (a chunk,
\* a question) sit at that piece's position
Embed(text) == text[1].vec

\* an embedding call that returns its vectors last text first
create_embeddings_reversed(text_list) ==
    [i \in 1..Len(text_list) |-> Embed(text_list[Len(text_list) + 1 - i])]

\* utils.create_embeddings_with_tokens, the vectors of a successful call
create_embeddings(text_list) == [i \in 1..Len(text_list) |-> Embed(text_list[i])]

\* squared Euclidean distance (faiss.IndexFlatL2)
Dist(v, q) == (v - q) * (v - q)

\* the handles (0-based positions) at distance d of q, lowest first
RECURSIVE HandlesAt(_, _, _, _)
HandlesAt(vectors, q, d, i) ==
    IF i > Len(vectors) THEN <<>>
    ELSE (IF Dist(vectors[i], q) = d THEN <<i - 1>> ELSE <<>>)
            \o HandlesAt(vectors, q, d, i + 1)

\* every handle of the index, nearest first; ties go to the lower handle
RECURSIVE NearestFirst(_, _, _)
NearestFirst(vectors, q, distances) ==
    IF distances = {} THEN <<>>
    ELSE LET d == CHOOSE x \in distances : \A y \in distances : x <= y
         IN  HandlesAt(vectors, q, d, 1) \o NearestFirst(vectors, q, distances \ {d})

\* faiss_index.search(query, k): the labels row I[0], k entries; an index
\* holding fewer than k vectors pads with -1
search(vectors, q, k) ==
    LET order == NearestFirst(vectors, q, {Dist(vectors[i], q) : i \in DOMAIN vectors})
    IN  [r \in 1..k |-> IF r <= Len(order) THEN order[r] ELSE -1]

---------------------------------------------------------------------------
(* process_question: context assembly *)

HasPaper(paper_contexts, name) ==
    \E i \in DOMAIN paper_contexts : paper_contexts[i].paper_name = name

\* paper_contexts[paper_name].append(text), creating the key on first use;
\* the dict keeps its keys in insertion order
AddChunk(paper_contexts, name, text) ==
    IF HasPaper(paper_contexts, name)
    THEN [i \in DOMAIN paper_contexts |->
            IF paper_contexts[i].paper_name = name
            THEN [paper_contexts[i] EXCEPT !.chunks = Append(@, text)]
            ELSE paper_contexts[i]]
    ELSE Append(paper_contexts, [paper_name |-> name, chunks |-> <<text>>])

\* the guard of the retrieval loop: if idx < len(metadata)
HandleAccepted(idx, metadata) == idx < Len(metadata)

\* for idx in I[0]: ... (app.py 262-269)
RECURSIVE Organize(_, _, _, _)
Organize(I, i, metadata, paper_contexts) ==
    IF i > Len(I) THEN paper_contexts
    ELSE IF HandleAccepted(I[i], metadata)
         THEN LET meta == At(metadata, I[i])
              IN  Organize(I, i + 1, metadata,
                           AddChunk(paper_contexts, meta.paper_name, meta.text))
         ELSE Organize(I, i + 1, metadata, paper_contexts)

\* tokens of one '=' * width line
SepTokens(width) == width \div 8 + 1

\* "\n\n{'='*width}\nPAPER: {paper_name}\n{'='*width}\n"
Header(name, width) ==
    <<Piece("header", name, width, 0, 2 * SepTokens(width) + 6)>>

\* a slice that keeps one chunk too many
LimitChunksOffByOne(chunks, cap) == Take(chunks, cap + 1)

\* chunks[:cap] of one paper
LimitChunks(chunks, cap) == Take(chunks, cap)

\* one paper's section of papers_context
Section(entry, cap, width) ==
    Header(entry.paper_name, width)
        \o Join(Lit("nn", 1), LimitChunks(entry.chunks, cap), 1)
        \o Lit("n", 1)

\* papers_context built with the given per-paper cap and separator width
RenderContext(paper_contexts, cap, width) ==
    Concat([i \in DOMAIN paper_contexts |-> Section(paper_contexts[i], cap, width)], 1)

\* the fallback test: if estimated_context_tokens > 10000
NeedsFallback(context) == count_tokens(context) > CONTEXT_CEILING

\* a fallback that keeps shrinking: one chunk per paper when two are still
\* over the ceiling
AssembleContextShrinking(paper_contexts) ==
    LET normal == RenderContext(paper_contexts, NORMAL_CAP, NORMAL_SEP)
        fallback == RenderContext(paper_contexts, FALLBACK_CAP, FALLBACK_SEP)
    IN  IF ~NeedsFallback(normal) THEN normal
        ELSE IF ~NeedsFallback(fallback) THEN fallback
        ELSE RenderContext(paper_contexts, 1, FALLBACK_SEP)

\* papers_context as it stands at app.py line 295
AssembleContext(paper_contexts) ==
    LET normal == RenderContext(paper_contexts, NORMAL_CAP, NORMAL_SEP)
    IN  IF NeedsFallback(normal)
        THEN RenderContext(paper_contexts, FALLBACK_CAP, FALLBACK_SEP)
        ELSE normal

system_prompt == Lit("system", 17)

\* the f-string of app.py 300-329 around the question and the context
user_prompt(question, papers_context) ==
    Lit("Question: ", 2) \o question \o Lit("Papers excerpts:", 6)
        \o papers_context \o Lit("Instructions", 190)

InputTokens(question, papers_context) ==
    count_tokens(system_prompt) + count_tokens(user_prompt(question, papers_context))

\* max_output_tokens = min(2000, 16385 - input_tokens - 500)
MaxOutputTokens(input_tokens) ==
    Min(OUTPUT_CAP, MODEL_CONTEXT_WINDOW - input_tokens - SAFETY_MARGIN)

\* a floor test that also rejects a budget of exactly the floor
BudgetTooSmallOffByOne(max_output_tokens) == max_output_tokens <= MIN_OUTPUT

\* if max_output_tokens < 500: raise ValueError("Context too large. ...")
BudgetTooSmall(max_output_tokens) == max_output_tokens < MIN_OUTPUT

---------------------------------------------------------------------------
(* Uploaded files and documents *)

\* a PDF's content: n chunks of extractable text (0: extraction yields
\* nothing), about one topic, tok tokens per chunk
Doc(n, topic, tok) == [n |-> n, topic |-> topic, tok |-> tok]

\* an uploaded file: its filename is stem.ext
File(stem, ext, doc) == [stem |-> stem, ext |-> ext, doc |-> doc]

NoDoc == Doc(0, 0, 0)

\* the files a request of Spec may carry
UploadFiles ==
    { File("a", "pdf", Doc(2, 0, 300)),
      File("c", "pdf", NoDoc),
      File("notes", "txt", NoDoc),
      File("", "", NoDoc) }

SeqsUpTo(S, n) == UNION {[1..m -> S] : m \in 0..n}

\* request.files: has_files is "'files' in request.files"
UploadRequests ==
    {[has_files |-> FALSE, files |-> <<>>]}
        \cup {[has_files |-> TRUE, files |-> fs] : fs \in SeqsUpTo(UploadFiles, MaxFiles)}

\* f and f.filename != ''
ValidFile(f) == ~(f.stem = "" /\ f.ext = "")

\* app.allowed_file
allowed_file(f) == f.ext = "pdf"

\* filename.replace('.pdf', '')
PaperName(f) == f.stem

\* utils.extract_pdf_text_from_url: None (FALSE here) when nothing is extracted
Extracted(f) == f.doc.n > 0

\* the chunks of one document's text: split_text_into_chunks(pdf_text, 1000);
\* a text that was extracted holds a word, so it has at least one chunk
DocChunks(f) ==
    [j \in 1..f.doc.n |->
        <<Piece("chunk", PaperName(f), j - 1, 2 * f.doc.topic + ((j - 1) % 2), f.doc.tok)>>]

\* the metadata entries of one document (app.py 130-137)
DocMetadata(f) ==
    LET chunks == DocChunks(f)
    IN  [j \in 1..Len(chunks) |->
            [text |-> chunks[j], paper_name |-> PaperName(f), paper_path |-> f.stem,
             chunk_index |-> j - 1, total_chunks |-> Len(chunks)]]

RECURSIVE Filter(_, _, _)
Filter(fs, i, keep) ==
    IF i > Len(fs) THEN <<>>
    ELSE (IF fs[i] \in keep THEN <<fs[i]>> ELSE <<>>) \o Filter(fs, i + 1, keep)

Range(s) == {s[i] : i \in DOMAIN s}

\* valid_files (app.py 79)
ValidFiles(files) == Filter(files, 1, {f \in Range(files) : ValidFile(f)})

\* the files saved as PDFs: pdf_paths (app.py 90-101)
PdfFiles(files) ==
    LET valid == ValidFiles(files)
    IN  Filter(valid, 1, {f \in Range(valid) : allowed_file(f)})

\* paper_names: appended for every saved PDF (app.py 98)
PaperNames(pdfs) == [i \in DOMAIN pdfs |-> PaperName(pdfs[i])]

\* whether the extraction loop keeps the document (app.py 116-119)
KeepsDocument(f) == Extracted(f)

\* the names of the documents the extraction loop did not skip, in order
ExtractedNames(pdfs) ==
    PaperNames(Filter(pdfs, 1, {f \in Range(pdfs) : KeepsDocument(f)}))

\* all_metadata after the extraction loop (app.py 110-137)
AllMetadata(pdfs) ==
    Concat([i \in DOMAIN pdfs |->
              IF KeepsDocument(pdfs[i]) THEN DocMetadata(pdfs[i]) ELSE <<>>], 1)

---------------------------------------------------------------------------
(* The artifact pair on disk *)

NoWriter == ""

NoFile == [state |-> "absent", writer |-> NoWriter, data |-> <<>>]

IndexPath == "indexes/S_index.index"
MetadataPath == "indexes/S_index_metadata.pkl"
\* a path no upload writes
MissingPath == "indexes/gone"

\* the files of the session
Paths == {IndexPath, MetadataPath}

\* os.path.exists(path)
Exists(path) == path \in Paths /\ disk[path].state # "absent"

\* a file written whole by upload u
FullFile(u, data) == [state |-> "full", writer |-> u, data |-> data]

\* a file opened with "wb" by upload u and not yet written
TruncatedFile(u) == [state |-> "truncated", writer |-> u, data |-> <<>>]

---------------------------------------------------------------------------
(* upload_papers *)

UploadResponse(status, code, message, papers, chunks) ==
    [status |-> status, code |-> code, message |-> message,
     papers |-> papers, total_papers |-> Len(papers), total_chunks |-> chunks]

NoResponse == UploadResponse("none", 0, "", <<>>, 0)

UploadError(code, message) == UploadResponse("error", code, message, <<>>, 0)

IdleUpload ==
    [pc |-> "idle", paper_names |-> <<>>, extracted |-> <<>>, all_metadata |-> <<>>, embeddings |-> <<>>,
     embed_calls |-> <<>>, embed_result |-> "none", build_calls |-> <<>>,
     wrote |-> {}, serial |-> TRUE, turn |-> 0, response |-> NoResponse]

Failed(rec, code, message) ==
    [rec EXCEPT !.pc = "done", !.response = UploadError(code, message)]

\* a handler that does not test all_metadata before the embedding step
NothingExtractedUnchecked(all_metadata) == FALSE

\* the test before the embedding step: if not all_metadata
NothingExtracted(all_metadata) == Len(all_metadata) = 0

\* a handler that logs the embedding failure and goes on to save what it has
EmbeddingFailedSwallowed(rec) == [rec EXCEPT !.pc = "write_index"]

\* what the handler does when the embedding call raised (app.py 152-156)
EmbeddingFailed(rec) == Failed(rec, 500, "Failed to create embeddings")

\* the embedding step and what follows it (app.py 145-164): the call is
\* recorded with its batch size; embed_ok is whether the service answered
EmbedStep(rec, embed_ok) ==
    LET texts == [i \in DOMAIN rec.all_metadata |-> rec.all_metadata[i].text]
        called == [rec EXCEPT !.embed_calls = Append(@, Len(texts)),
                              !.embed_result = IF embed_ok THEN "ok" ELSE "raised"]
    IN  IF embed_ok
        THEN [called EXCEPT !.pc = "write_index", !.embeddings = create_embeddings(texts)]
        ELSE EmbeddingFailed(called)

\* upload_papers from the request to the call of save_faiss_and_metadata
\* (app.py 59-164)
PrepareUpload(req, embed_ok) ==
    LET rec0 == IdleUpload
        pdfs == PdfFiles(req.files)
        rec1 == [rec0 EXCEPT !.paper_names = PaperNames(pdfs),
                             !.extracted = ExtractedNames(pdfs),
                             !.all_metadata = AllMetadata(pdfs)]
    IN  IF ~req.has_files THEN Failed(rec0, 400, "No files provided")
        ELSE IF Len(req.files) = 0 THEN Failed(rec0, 400, "No files selected")
        ELSE IF Len(ValidFiles(req.files)) = 0
             THEN Failed(rec0, 400, "No valid files selected")
        ELSE IF Len(pdfs) = 0 THEN Failed(rec0, 400, "No valid PDF files")
        ELSE IF NothingExtracted(rec1.all_metadata)
             THEN Failed(rec1, 400, "Failed to process PDFs - no text extracted")
        ELSE EmbedStep(rec1, embed_ok)

\* the success response (app.py 177-186)
SuccessResponse(rec) ==
    UploadResponse("success", 200, "Successfully processed",
                   rec.paper_names, Len(rec.all_metadata))

\* an exception out of save_faiss_and_metadata reaches the handler's
\* except clause (app.py 188-192)
SaveFailed(rec) == Failed(rec, 500, "Server error")

---------------------------------------------------------------------------
(* Upload actions *)

\* upload u is inside save_faiss_and_metadata
Saving(u) == up[u].pc \in {"write_index", "open_metadata", "dump_metadata"}

\* POST /systematic-review/upload up to the call of save_faiss_and_metadata,
\* for a request of the set requests; serial records that no other upload of
\* the session was saving at that time, turn how many had begun before it
UploadRequestFrom(u, requests) ==
    /\ up[u].pc = "idle"
    /\ \E req \in requests, embed_ok \in BOOLEAN :
          up' = [up EXCEPT ![u] =
                   [PrepareUpload(req, embed_ok) EXCEPT
                        !.serial = \A v \in Uploads \ {u} : ~Saving(v),
                        !.turn = Cardinality({v \in Uploads : up[v].pc # "idle"})]]
    /\ UNCHANGED <<disk, qs, ck>>

UploadRequest(u) == UploadRequestFrom(u, UploadRequests)

\* the upload's record once the index is built (utils.py 193-195)
IndexBuilt(rec) == [rec EXCEPT !.build_calls = Append(@, Len(rec.embeddings))]

\* the upload's record once the metadata file is open for writing
MetadataOpened(rec) ==
    [rec EXCEPT !.pc = "dump_metadata", !.wrote = @ \cup {MetadataPath}]

\* the upload's record once faiss.write_index has returned
IndexWritten(rec) ==
    [rec EXCEPT !.pc = "open_metadata", !.wrote = @ \cup {IndexPath}]

\* the upload's record once the with-block of the metadata file has closed
MetadataWritten(rec) ==
    [rec EXCEPT !.pc = "done", !.response = SuccessResponse(rec)]

\* save_faiss_and_metadata: build the index and faiss.write_index (utils.py 192-203)
WriteIndex(u) ==
    /\ up[u].pc = "write_index"
    /\ LET built == IndexBuilt(up[u])
       IN  \/ /\ disk' = [disk EXCEPT ![IndexPath] = FullFile(u, built.embeddings)]
              /\ up' = [up EXCEPT ![u] = IndexWritten(built)]
           \/ /\ up' = [up EXCEPT ![u] = SaveFailed(built)]
              /\ UNCHANGED disk
    /\ UNCHANGED <<qs, ck>>

\* save_faiss_and_metadata: open(metadata_path, "wb") (utils.py 206)
OpenMetadata(u) ==
    /\ up[u].pc = "open_metadata"
    /\ \/ /\ disk' = [disk EXCEPT ![MetadataPath] = TruncatedFile(u)]
          /\ up' = [up EXCEPT ![u] = MetadataOpened(@)]
       \/ /\ up' = [up EXCEPT ![u] = SaveFailed(@)]
          /\ UNCHANGED disk
    /\ UNCHANGED <<qs, ck>>

\* save_faiss_and_metadata: pickle.dump(metadata, f), the return and the
\* success response (utils.py 207-210, app.py 166-186)
DumpMetadata(u) ==
    /\ up[u].pc = "dump_metadata"
    /\ \/ /\ disk' = [disk EXCEPT ![MetadataPath] = FullFile(u, up[u].all_metadata)]
          /\ up' = [up EXCEPT ![u] = MetadataWritten(@)]
       \/ /\ up' = [up EXCEPT ![u] = SaveFailed(@)]
          /\ UNCHANGED disk
    /\ UNCHANGED <<qs, ck>>

---------------------------------------------------------------------------
(* query_papers *)

QueryResponse(status, code, message) ==
    [status |-> status, code |-> code, message |-> message,
     path |-> "", input_tokens |-> 0, papers_analyzed |-> {}]

NoQueryResponse == QueryResponse("none", 0, "")

IdleQuery ==
    [pc |-> "idle", question |-> <<>>, index_path |-> "", metadata_path |-> "",
     faiss_index |-> <<>>, index_writer |-> NoWriter,
     metadata |-> <<>>, metadata_writer |-> NoWriter,
     I |-> <<>>, paper_contexts |-> <<>>, papers_context |-> <<>>,
     estimated_context_tokens |-> 0, fallback_passes |-> 0, input_tokens |-> 0, max_output_tokens |-> 0,
     embed_calls |-> 0, generation_calls |-> <<>>,
     response |-> NoQueryResponse]

QueryFailed(q, code, message) ==
    [q EXCEPT !.pc = "done", !.response = QueryResponse("error", code, message)]

\* paper_names = list(set([m['paper_name'] for m in metadata])) (app.py 226)
PapersAnalyzed(q) == {q.metadata[i].paper_name : i \in DOMAIN q.metadata}

\* the ValueError of app.py 340 as query_papers returns it (app.py 241-245)
ContextTooLarge(q) ==
    [q EXCEPT !.pc = "done",
              !.response = [QueryResponse("error", 500, "Context too large")
                               EXCEPT !.input_tokens = q.input_tokens]]

\* the generation call and the success response (app.py 344-372, 231-239)
Generate(q, generation_ok) ==
    LET called == [q EXCEPT !.generation_calls = Append(@, q.max_output_tokens)]
    IN  IF generation_ok
        THEN [called EXCEPT !.pc = "done",
                 !.response = [QueryResponse("success", 200, "")
                                  EXCEPT !.papers_analyzed = PapersAnalyzed(q)]]
        ELSE QueryFailed(called, 500, "generation failed")

\* the budget check and what follows it (app.py 335-354)
BudgetStep(q, generation_ok) ==
    IF BudgetTooSmall(q.max_output_tokens)
    THEN ContextTooLarge(q)
    ELSE Generate(q, generation_ok)

\* num_chunks = min(20, len(metadata))
NumChunks(metadata) == Min(TOP_N, Len(metadata))

\* process_question from the retrieval to max_output_tokens (app.py 255-337)
Assemble(q) ==
    LET I == search(q.faiss_index, Embed(q.question), NumChunks(q.metadata))
        paper_contexts == Organize(I, 1, q.metadata, <<>>)
        normal == RenderContext(paper_contexts, NORMAL_CAP, NORMAL_SEP)
        papers_context == AssembleContext(paper_contexts)
        input_tokens == InputTokens(q.question, papers_context)
    IN  [q EXCEPT !.I = I, !.paper_contexts = paper_contexts,
                  !.papers_context = papers_context,
                  !.estimated_context_tokens = count_tokens(normal),
                  !.fallback_passes = IF NeedsFallback(normal) THEN 1 ELSE 0,
                  !.input_tokens = input_tokens,
                  !.max_output_tokens = MaxOutputTokens(input_tokens)]

\* create_embeddings([question]) is called once (app.py 258)
QuestionEmbedded(q) == [q EXCEPT !.embed_calls = @ + 1]

\* the questions a query may ask
Question(vec, tok) == <<Piece("question", NoPaper, 0, vec, tok)>>

\* tokens of a question: a short one, and two long ones that put the prompt
\* of nine 1000-token chunks at the budget's edge
QuestionTokens == {20, 6095, 6096}

\* where a question's embedding may sit
QuestionVecs == {0, 1, 2}

Questions == {Question(v, t) : v \in QuestionVecs, t \in QuestionTokens}

\* request.json of a query; an empty question is <<>>
QueryRequests ==
    [question : {Question(0, 20), <<>>},
     index_path : {"", IndexPath, MissingPath},
     metadata_path : {"", MetadataPath, MissingPath}]

\* the checks of app.py 208-218
ValidateQuery(req) ==
    LET q == [IdleQuery EXCEPT !.question = req.question,
                               !.index_path = req.index_path,
                               !.metadata_path = req.metadata_path]
    IN  IF Len(req.question) = 0 THEN QueryFailed(q, 400, "Question is required")
        ELSE IF req.index_path = "" \/ req.metadata_path = ""
             THEN QueryFailed(q, 400, "No papers uploaded yet")
        ELSE [q EXCEPT !.pc = "load_index"]

\* a FileNotFoundError whose message leaves the path out
NotFoundWithoutPath(q, message, path) ==
    [q EXCEPT !.pc = "done", !.response = QueryResponse("error", 500, message)]

\* the FileNotFoundError of load_faiss_and_metadata as query_papers returns it
NotFound(q, message, path) ==
    [q EXCEPT !.pc = "done",
              !.response = [QueryResponse("error", 500, message) EXCEPT !.path = path]]

---------------------------------------------------------------------------
(* Query actions *)

\* POST /systematic-review/query up to the call of load_faiss_and_metadata
QueryRequest ==
    /\ qs.pc = "idle"
    /\ \E req \in QueryRequests : qs' = ValidateQuery(req)
    /\ UNCHANGED <<disk, up, ck>>

\* load_faiss_and_metadata: the index (utils.py 229-232)
LoadIndex ==
    /\ qs.pc = "load_index"
    /\ qs' = IF ~Exists(qs.index_path)
             THEN NotFound(qs, "Index file not found", qs.index_path)
             ELSE [qs EXCEPT !.pc = "load_metadata",
                             !.faiss_index = disk[qs.index_path].data,
                             !.index_writer = disk[qs.index_path].writer]
    /\ UNCHANGED <<disk, up, ck>>

\* load_faiss_and_metadata: the metadata (utils.py 235-241); unpickling a
\* file that was opened for writing and not yet written raises EOFError
LoadMetadata ==
    /\ qs.pc = "load_metadata"
    /\ qs' = IF ~Exists(qs.metadata_path)
             THEN NotFound(qs, "Metadata file not found", qs.metadata_path)
             ELSE IF disk[qs.metadata_path].state = "truncated"
             THEN QueryFailed(qs, 500, "Ran out of input")
             ELSE [qs EXCEPT !.pc = "loaded",
                             !.metadata = disk[qs.metadata_path].data,
                             !.metadata_writer = disk[qs.metadata_path].writer]
    /\ UNCHANGED <<disk, up, ck>>

\* process_question and the response of the query; a metadata file that was
\* written whole holds at least one chunk, so num_chunks >= 1
Process ==
    /\ qs.pc = "loaded"
    /\ LET embedded == QuestionEmbedded(qs)
       IN  \/ qs' = QueryFailed(embedded, 500, "embedding failed")
           \/ LET assembled == Assemble(embedded)
              IN  \E generation_ok \in BOOLEAN :
                     qs' = BudgetStep(assembled, generation_ok)
    /\ UNCHANGED <<disk, up, ck>>

---------------------------------------------------------------------------
(* The service: uploads and a query of one session, in any interleaving *)

\* no call of split_text_into_chunks is being followed
IdleChunker == [pc |-> "idle", text |-> <<>>, max_tokens |-> 0, chunks |-> <<>>]

Init ==
    /\ disk = [p \in Paths |-> NoFile]
    /\ up = [u \in Uploads |-> IdleUpload]
    /\ qs = IdleQuery
    /\ ck = IdleChunker

Next ==
    \/ \E u \in Uploads : UploadRequest(u)
    \/ \E u \in Uploads : WriteIndex(u)
    \/ \E u \in Uploads : OpenMetadata(u)
    \/ \E u \in Uploads : DumpMetadata(u)
    \/ QueryRequest
    \/ LoadIndex
    \/ LoadMetadata
    \/ Process

Spec == Init /\ [][Next]_vars

---------------------------------------------------------------------------
(* process_question on the artifact pair of one completed upload *)

DocNames == <<"A", "B", "C", "D", "E">>

\* chunks per document
ChunkCounts == {2, 10}
\* tokens per chunk
ChunkTokens == {1000, 3000}

AssembleDocs == {Doc(n, t, k) : n \in ChunkCounts, t \in Topics, k \in ChunkTokens}

\* the uploads whose artifact pair the query runs against
AssembleRequests ==
    {[has_files |-> TRUE, files |-> [i \in DOMAIN ds |-> File(DocNames[i], "pdf", ds[i])]] :
        ds \in UNION {[1..m -> AssembleDocs] : m \in 1..MaxDocs}}

\* upload_papers run to its success response
CompletedUpload(req) ==
    MetadataWritten(MetadataOpened(IndexWritten(IndexBuilt(PrepareUpload(req, TRUE)))))

InitAssemble ==
    \E req \in AssembleRequests, question \in Questions :
        LET rec == CompletedUpload(req)
        IN  /\ disk = [p \in Paths |->
                         IF p = IndexPath THEN FullFile("u1", rec.embeddings)
                         ELSE FullFile("u1", rec.all_metadata)]
            /\ up = [u \in Uploads |-> IF u = "u1" THEN rec ELSE IdleUpload]
            /\ qs = [IdleQuery EXCEPT !.pc = "loaded", !.question = question,
                         !.index_path = IndexPath, !.metadata_path = MetadataPath,
                         !.faiss_index = rec.embeddings, !.index_writer = "u1",
                         !.metadata = rec.all_metadata, !.metadata_writer = "u1"]
            /\ ck = IdleChunker

NextAssemble == Process

SpecAssemble == InitAssemble /\ [][NextAssemble]_vars

---------------------------------------------------------------------------
(* process_question on an index and a metadata list of any two uploads: the *)
(* two paths of a query are the caller's, and overlapping uploads can leave *)
(* the index of one with the metadata of the other                          *)

PairDocs == {Doc(n, t, 1000) : n \in {1, 3}, t \in Topics}

PairRequests ==
    {[has_files |-> TRUE, files |-> [i \in DOMAIN ds |-> File(DocNames[i], "pdf", ds[i])]] :
        ds \in UNION {[1..m -> PairDocs] : m \in {1, 2}}}

InitPair ==
    \E index_req \in PairRequests, metadata_req \in PairRequests, question \in Questions :
        LET index_rec == [CompletedUpload(index_req) EXCEPT !.turn = 0]
            metadata_rec == [CompletedUpload(metadata_req) EXCEPT !.turn = 1]
        IN  /\ disk = [p \in Paths |->
                         IF p = IndexPath THEN FullFile("u1", index_rec.embeddings)
                         ELSE FullFile("u2", metadata_rec.all_metadata)]
            /\ up = [u \in Uploads |-> IF u = "u1" THEN index_rec ELSE metadata_rec]
            /\ qs = [IdleQuery EXCEPT !.pc = "loaded", !.question = question,
                         !.index_path = IndexPath, !.metadata_path = MetadataPath,
                         !.faiss_index = index_rec.embeddings, !.index_writer = "u1",
                         !.metadata = metadata_rec.all_metadata, !.metadata_writer = "u2"]
            /\ ck = IdleChunker

NextPair == Process

SpecPair == InitPair /\ [][NextPair]_vars

---------------------------------------------------------------------------
(* Uploads of different documents to one session, in any interleaving *)

\* two documents that differ in chunk count and in content
DocumentFiles == {File("a", "pdf", Doc(2, 0, 300)), File("b", "pdf", Doc(1, 1, 300))}

DocumentRequests ==
    [has_files : {TRUE}, files : SeqsUpTo(DocumentFiles, MaxFiles) \ {<<>>}]

UploadDocuments(u) == UploadRequestFrom(u, DocumentRequests)

NextUploads ==
    \/ \E u \in Uploads : UploadDocuments(u)
    \/ \E u \in Uploads : WriteIndex(u)
    \/ \E u \in Uploads : OpenMetadata(u)
    \/ \E u \in Uploads : DumpMetadata(u)

SpecUploads == Init /\ [][NextUploads]_vars

---------------------------------------------------------------------------
(* split_text_into_chunks: textwrap.wrap(text, max_tokens * 4,             *)
(* break_long_words=False, break_on_hyphens=False)                         *)
(* A text is a sequence of characters.                                     *)

\* characters that are not whitespace
Letters == {"a", "b"}
\* whitespace that textwrap breaks at (its _whitespace: space, \t \n \v \f \r)
AsciiWhitespace == {" ", "\n"}
\* whitespace to str.strip, str.split and str.isspace that textwrap does
\* not break at (U+00A0, U+001C..U+001F, U+0085, U+2028, ...)
OtherWhitespace == {"nbsp"}

Characters == Letters \cup AsciiWhitespace \cup OtherWhitespace

Texts == UNION {[1..n -> Characters] : n \in 0..MaxText}

\* the max_tokens a caller passes; the width of a chunk is max_tokens * 4
MaxTokensValues == {1}

\* TextWrapper._munge_whitespace: every character of _whitespace becomes a space
munge_whitespace(text) ==
    [i \in DOMAIN text |-> IF text[i] \in AsciiWhitespace THEN " " ELSE text[i]]

\* TextWrapper._split with wordsep_simple_re: the text cut at the boundaries
\* between runs of spaces and runs of other characters
RECURSIVE SplitRuns(_, _, _, _)
SplitRuns(text, i, run, runs) ==
    IF i > Len(text) THEN (IF run = <<>> THEN runs ELSE Append(runs, run))
    ELSE IF run = <<>> \/ ((text[i] = " ") = (run[1] = " "))
         THEN SplitRuns(text, i + 1, Append(run, text[i]), runs)
         ELSE SplitRuns(text, i + 1, <<text[i]>>, Append(runs, run))

\* chunk.strip() == '': str.strip removes every kind of whitespace
IsBlank(chunk) ==
    \A i \in DOMAIN chunk : chunk[i] \in {" "} \cup OtherWhitespace

\* how many leading chunks fit on a line that already holds cur_len characters
RECURSIVE Fitting(_, _, _, _)
Fitting(chunks, i, cur_len, width) ==
    IF i > Len(chunks) \/ cur_len + Len(chunks[i]) > width THEN i - 1
    ELSE Fitting(chunks, i + 1, cur_len + Len(chunks[i]), width)

\* TextWrapper._wrap_chunks with drop_whitespace=True and
\* break_long_words=False (_handle_long_word puts a chunk longer than the
\* width on a line only when the line is empty)
RECURSIVE wrap_chunks(_, _, _)
wrap_chunks(chunks, width, lines) ==
    IF chunks = <<>> THEN lines
    ELSE LET started == IF IsBlank(chunks[1]) /\ lines # <<>>
                        THEN Tail(chunks) ELSE chunks
             k == Fitting(started, 1, 0, width)
             rest == SubSeq(started, k + 1, Len(started))
             long == k = 0 /\ rest # <<>> /\ Len(rest[1]) > width
             cur_line == IF long THEN <<rest[1]>> ELSE SubSeq(started, 1, k)
             left == IF long THEN Tail(rest) ELSE rest
             kept == IF cur_line # <<>> /\ IsBlank(cur_line[Len(cur_line)])
                     THEN SubSeq(cur_line, 1, Len(cur_line) - 1)
                     ELSE cur_line
         IN  wrap_chunks(left, width,
                         IF kept # <<>> THEN Append(lines, Concat(kept, 1))
                         ELSE lines)

\* textwrap.wrap(text, width, break_long_words=False, break_on_hyphens=False)
wrap(text, width) ==
    wrap_chunks(SplitRuns(munge_whitespace(text), 1, <<>>, <<>>), width, <<>>)

\* utils.py 97-122
split_text_into_chunks(text, max_tokens) ==
    IF text = <<>> THEN <<>> ELSE wrap(text, max_tokens * 4)

\* one call of split_text_into_chunks
SplitText ==
    /\ ck.pc = "called"
    /\ ck' = [ck EXCEPT !.pc = "returned",
                        !.chunks = split_text_into_chunks(ck.text, ck.max_tokens)]
    /\ UNCHANGED <<disk, up, qs>>

InitChunk ==
    /\ disk = [p \in Paths |-> NoFile]
    /\ up = [u \in Uploads |-> IdleUpload]
    /\ qs = IdleQuery
    /\ \E text \in Texts, max_tokens \in MaxTokensValues :
          ck = [pc |-> "called", text |-> text, max_tokens |-> max_tokens,
                chunks |-> <<>>]

NextChunk == SplitText

SpecChunk == InitChunk /\ [][NextChunk]_vars

---------------------------------------------------------------------------
(* Properties *)

\* no upload is between its request and its response
Quiescent == \A u \in Uploads : up[u].pc \in {"idle", "done"}

\* the two files are both absent, or both written whole by one upload
PairIntact ==
    \/ disk[IndexPath].state = "absent" /\ disk[MetadataPath].state = "absent"
    \/ /\ disk[IndexPath].state = "full"
       /\ disk[MetadataPath].state = "full"
       /\ disk[IndexPath].writer = disk[MetadataPath].writer

\* C1: whenever every upload attempt has ended (in success or in failure at
\* any step), the session's index file and metadata file are both absent or
\* both present from the same upload.
C1_NoPartialArtifacts == Quiescent => PairIntact

\* the uploads of the session ran one after the other and none failed
\* inside save_faiss_and_metadata
UploadsSerialAndSaved ==
    \A u \in Uploads : up[u].serial /\ up[u].response.message # "Server error"

\* C2: whatever the interleaving of a query with the uploads of its session
\* (the uploads themselves one after the other, each saving without error),
\* the index and the metadata the query has loaded were written by one and
\* the same upload.
C2_QueryLoadsOnePair ==
    UploadsSerialAndSaved /\ qs.metadata_writer # NoWriter =>
        qs.index_writer = qs.metadata_writer

\* process_question got past the embedding of the question
Assembled == qs.pc = "done" /\ qs.response.message # "embedding failed"

\* the chunk pieces of paper name in a rendered context, in order
RECURSIVE ChunkPieces(_, _, _)
ChunkPieces(context, name, i) ==
    IF i > Len(context) THEN <<>>
    ELSE (IF context[i].kind = "chunk" /\ context[i].paper = name
          THEN <<context[i]>> ELSE <<>>) \o ChunkPieces(context, name, i + 1)

\* the chunks of paper name among the neighbours the search returned, by rank
RECURSIVE RetrievedFrom(_, _, _, _)
RetrievedFrom(I, metadata, name, r) ==
    IF r > Len(I) THEN <<>>
    ELSE (IF I[r] >= 0 /\ I[r] < Len(metadata) /\ metadata[I[r] + 1].paper_name = name
          THEN metadata[I[r] + 1].text ELSE <<>>)
            \o RetrievedFrom(I, metadata, name, r + 1)

Retrieved(name) == RetrievedFrom(qs.I, qs.metadata, name, 1)

InContext(name) == ChunkPieces(qs.papers_context, name, 1)

SourceNames == {qs.metadata[i].paper_name : i \in DOMAIN qs.metadata}

FirstOf(s, n) == [i \in 1..(IF n < Len(s) THEN n ELSE Len(s)) |-> s[i]]

\* C3: the context holds, of every source document, exactly its first 3
\* retrieved chunks by rank when the normal render is at most 10,000 tokens,
\* and its first 2 when the normal render is over 10,000 tokens.
C3_PerSourceCap ==
    Assembled =>
        \A name \in SourceNames :
            InContext(name) =
                FirstOf(Retrieved(name),
                        IF qs.estimated_context_tokens <= 10000 THEN 3 ELSE 2)

\* a normal pass that had to drop chunks of a source with more than 3 hits
C3_Witness ==
    /\ Assembled
    /\ qs.estimated_context_tokens <= 10000
    /\ \E name \in SourceNames : Len(Retrieved(name)) > 3 /\ Len(InContext(name)) = 3

ContextTooLargeReturned ==
    /\ qs.response.status = "error"
    /\ qs.response.code = 500
    /\ qs.response.message = "Context too large"
    /\ qs.response.input_tokens = qs.input_tokens

\* C4: the estimate is count(system_prompt) + count(user_prompt); above
\* 15385 the generation service is not called and the query ends with the
\* ContextTooLarge error carrying the estimate; at 15385 or below the service
\* is called with max_tokens = min(2000, 16385 - estimate - 500).
C4_BudgetEnforced ==
    Assembled =>
        /\ qs.input_tokens =
              count_tokens(system_prompt)
                  + count_tokens(user_prompt(qs.question, qs.papers_context))
        /\ qs.input_tokens > 15385 =>
              qs.generation_calls = <<>> /\ ContextTooLargeReturned
        /\ qs.input_tokens <= 15385 =>
              qs.generation_calls =
                  <<IF 2000 < 16385 - qs.input_tokens - 500
                    THEN 2000 ELSE 16385 - qs.input_tokens - 500>>

\* a prompt one token over the budget, refused without a generation call
C4_Witness ==
    /\ Assembled
    /\ qs.input_tokens = 15386
    /\ qs.generation_calls = <<>>
    /\ ContextTooLargeReturned

\* the fallback pass ran and its context is still over the ceiling
StillOverAfterFallback ==
    /\ Assembled
    /\ qs.estimated_context_tokens > 10000
    /\ count_tokens(qs.papers_context) > 10000

\* C5 as claimed: a context still over 10,000 tokens after the fallback pass
\* ends the query with ContextTooLarge and without a generation call.
C5_OverCeilingIsRefused ==
    StillOverAfterFallback =>
        qs.generation_calls = <<>> /\ ContextTooLargeReturned

\* C5 as amended: when the normal render is over the ceiling the context is
\* rendered once more with 2 chunks per source and never with fewer; if that
\* context is still over 10,000 tokens the query is refused with
\* ContextTooLarge, and the generation service not called, exactly when the
\* prompt estimate exceeds 15385, and otherwise the service is called once.
C5_SingleFallbackThenBudget ==
    /\ Assembled /\ qs.estimated_context_tokens > 10000 =>
          \A name \in SourceNames :
              Len(InContext(name)) =
                  (IF Len(Retrieved(name)) < 2 THEN Len(Retrieved(name)) ELSE 2)
    /\ StillOverAfterFallback =>
          IF qs.input_tokens > 15385
          THEN qs.generation_calls = <<>> /\ ContextTooLargeReturned
          ELSE Len(qs.generation_calls) = 1 /\ ~ContextTooLargeReturned

\* a fallback context over the ceiling that is refused for its prompt size
C5_Witness ==
    /\ StillOverAfterFallback
    /\ qs.input_tokens > 15385
    /\ ContextTooLargeReturned

\* the metadata holds exactly 3 documents of 10 chunks each
ThreeDocumentsOfTen ==
    /\ Cardinality(SourceNames) = 3
    /\ \A name \in SourceNames :
          Cardinality({i \in DOMAIN qs.metadata : qs.metadata[i].paper_name = name}) = 10

\* C6: with three documents of 10 chunks each in the index, the assembled
\* context holds at least one chunk of each of the three.
C6_EverySourceInContext ==
    Assembled /\ ThreeDocumentsOfTen =>
        \A name \in SourceNames : Len(InContext(name)) >= 1

\* C7: the papers_analyzed of a successful query are exactly the documents
\* with at least one chunk among the retrieved ones.
C7_PapersAnalyzedAreRetrieved ==
    qs.pc = "done" /\ qs.response.status = "success" =>
        qs.response.papers_analyzed =
            {name \in SourceNames : Len(Retrieved(name)) >= 1}

\* C8: a successful upload reports exactly the documents whose text was
\* extracted, and their number; the upload fails for want of text only when
\* no document's text was extracted.
C8_PapersAreTheExtractedOnes ==
    \A u \in Uploads :
        /\ up[u].response.status = "success" =>
              /\ up[u].response.papers = up[u].extracted
              /\ up[u].response.total_papers = Len(up[u].extracted)
        /\ up[u].response.message = "Failed to process PDFs - no text extracted" =>
              up[u].extracted = <<>>

\* C9: an upload whose embedding call raised has ended with status error and
\* a 5xx code, and has written neither file of the session.
C9_EmbeddingFailureWritesNothing ==
    \A u \in Uploads :
        up[u].embed_result = "raised" =>
            /\ up[u].pc = "done"
            /\ up[u].response.status = "error"
            /\ up[u].response.code >= 500 /\ up[u].response.code <= 599
            /\ up[u].wrote = {}
            /\ \A p \in Paths : disk[p].writer # u

\* an embedding failure of one upload while the pair of another is on disk
C9_Witness ==
    \E u \in Uploads :
        /\ up[u].embed_result = "raised"
        /\ disk[IndexPath].state = "full"
        /\ disk[MetadataPath].state = "full"

\* C10: every embedding call and every index build of an upload is over at
\* least one chunk; an upload whose extraction yielded no chunk has ended
\* with a 4xx error without an embedding call, an index build or a write.
C10_NoBuildOverZeroChunks ==
    \A u \in Uploads :
        /\ \A i \in DOMAIN up[u].embed_calls : up[u].embed_calls[i] >= 1
        /\ \A i \in DOMAIN up[u].build_calls : up[u].build_calls[i] >= 1
        /\ up[u].pc # "idle" /\ Len(up[u].all_metadata) = 0 =>
              /\ up[u].pc = "done"
              /\ up[u].response.status = "error"
              /\ up[u].response.code >= 400 /\ up[u].response.code <= 499
              /\ up[u].embed_calls = <<>>
              /\ up[u].build_calls = <<>>
              /\ up[u].wrote = {}

\* an upload of PDFs none of which yields text
C10_Witness ==
    \E u \in Uploads :
        /\ up[u].pc = "done"
        /\ Len(up[u].paper_names) >= 1
        /\ Len(up[u].all_metadata) = 0
        /\ up[u].response.code = 400

---------------------------------------------------------------------------
(* Queries against missing artifact files *)

\* the query q ended with the error of a file that is not on disk
MissingReported(q, path) ==
    /\ q.pc = "done"
    /\ q.response.status = "error"
    /\ q.response.code = 500
    /\ q.response.path = path
    /\ path # ""
    /\ q.embed_calls = 0
    /\ q.generation_calls = <<>>

\* C11: a query that reaches the load of an index file that is not on disk
\* ends with status error, code 500 and the index path in its message, with
\* no embedding call and no generation call; a query whose index file is on
\* disk and whose metadata file is not ends the same way with the metadata
\* path in its message.
C11_MissingFileIsReported ==
    [][/\ (qs.pc = "load_index" /\ ~Exists(qs.index_path) /\ qs' # qs)
              => MissingReported(qs', qs.index_path)
       /\ (qs.pc = "load_metadata" /\ ~Exists(qs.metadata_path) /\ qs' # qs)
              => MissingReported(qs', qs.metadata_path)]_vars

\* the index file of the query is on disk, its metadata file is not, and the
\* query has ended with the metadata path reported
C11_Witness ==
    /\ qs.pc = "done"
    /\ qs.index_writer # NoWriter
    /\ ~Exists(qs.metadata_path)
    /\ qs.response.message = "Metadata file not found"
    /\ qs.response.path = qs.metadata_path

---------------------------------------------------------------------------
(* The chunker's contract *)

\* whitespace as str.split and str.isspace see it
Whitespace == AsciiWhitespace \cup OtherWhitespace

\* text.split(): the maximal runs of characters that are not whitespace
RECURSIVE WordsFrom(_, _, _, _)
WordsFrom(text, i, word, words) ==
    IF i > Len(text) THEN (IF word = <<>> THEN words ELSE Append(words, word))
    ELSE IF text[i] \in Whitespace
         THEN WordsFrom(text, i + 1, <<>>,
                        IF word = <<>> THEN words ELSE Append(words, word))
         ELSE WordsFrom(text, i + 1, Append(word, text[i]), words)

Words(text) == WordsFrom(text, 1, <<>>, <<>>)

\* the words of each chunk, chunk after chunk
WordsByChunk(chunks) == Concat([i \in DOMAIN chunks |-> Words(chunks[i])], 1)

Returned == ck.pc = "returned"

\* the chunks joined by single spaces have the words of the input, in order
WordsPreserved == Words(Join(<<" ">>, ck.chunks, 1)) = Words(ck.text)

\* no word of the input lies across two chunks
NoWordSplit == WordsByChunk(ck.chunks) = Words(ck.text)

\* a chunk is within the width unless it is one word longer than the width
WidthRespected ==
    \A i \in DOMAIN ck.chunks :
        \/ Len(ck.chunks[i]) <= ck.max_tokens * 4
        \/ Words(ck.chunks[i]) = <<ck.chunks[i]>>

\* empty and whitespace-only input gives no chunk
BlankGivesNothing ==
    (\A i \in DOMAIN ck.text : ck.text[i] \in Whitespace) => ck.chunks = <<>>

\* C12: for every text and max_tokens >= 1 the chunks of
\* split_text_into_chunks, joined by single spaces, have the words of the
\* text in order; no word lies across two chunks; every chunk has at most
\* max_tokens * 4 characters unless it is a single word longer than that;
\* empty or whitespace-only text gives the empty sequence.
C12_ChunksKeepWords ==
    Returned =>
        /\ WordsPreserved
        /\ NoWordSplit
        /\ WidthRespected
        /\ BlankGivesNothing

---------------------------------------------------------------------------
(* The artifact pair after the uploads of a session *)

Succeeded(u) == up[u].pc = "done" /\ up[u].response.status = "success"

\* every upload that was made has ended, in success, and one at least was made
UploadsSucceeded ==
    /\ \A u \in Uploads : up[u].pc = "idle" \/ Succeeded(u)
    /\ \E u \in Uploads : Succeeded(u)

\* the index holds as many vectors as the metadata holds chunks, and vector
\* i is the embedding of chunk i
PairAligned ==
    /\ Len(disk[IndexPath].data) = Len(disk[MetadataPath].data)
    /\ \A i \in DOMAIN disk[MetadataPath].data :
          disk[IndexPath].data[i] = Embed(disk[MetadataPath].data[i].text)

\* both files are whole and written by upload u
PairOf(u) ==
    /\ disk[IndexPath].state = "full" /\ disk[IndexPath].writer = u
    /\ disk[MetadataPath].state = "full" /\ disk[MetadataPath].writer = u

\* the upload that began last among those that succeeded
LastSucceeded ==
    CHOOSE u \in Uploads :
        Succeeded(u) /\ \A v \in Uploads : Succeeded(v) => up[v].turn <= up[u].turn

---------------------------------------------------------------------------
(* The handles behind the context *)

\* the ranks at which the search returned a position of the metadata list
RealNeighbours ==
    {r \in DOMAIN qs.I : qs.I[r] >= 0 /\ qs.I[r] < Len(qs.metadata)}

\* the number of chunks gathered under all papers
RECURSIVE Gathered(_, _)
Gathered(paper_contexts, i) ==
    IF i > Len(paper_contexts) THEN 0
    ELSE Len(paper_contexts[i].chunks) + Gathered(paper_contexts, i + 1)

\* C14: every chunk text in the context is metadata[h] for a handle h the
\* search returned with 0 <= h < len(metadata), and the handles outside that
\* range (the -1 entries of an index holding fewer than k vectors among
\* them) add no chunk: as many chunks are gathered as such handles returned.
C14_OnlyRealNeighboursContribute ==
    Assembled =>
        /\ \A name \in SourceNames :
              \A i \in DOMAIN InContext(name) :
                  \E r \in RealNeighbours :
                      qs.metadata[qs.I[r] + 1].text = <<InContext(name)[i]>>
        /\ Gathered(qs.paper_contexts, 1) = Cardinality(RealNeighbours)

=============================================================================
